---- MODULE Spec2Model ----
(***************************************************************************)
(* cache-async-fn (gera2ld/cache-api): the cache-entry lifecycle of one    *)
(* cached function created by cacheAsyncFactory(...).cacheAsync(fn, opts). *)
(*                                                                         *)
(* JavaScript values are modelled as follows.                              *)
(*   - a resolver output component (string | number | undefined) is a      *)
(*     tagged record: [t |-> "str", s |-> ..], [t |-> "num", n |-> ..],    *)
(*     [t |-> "undef"];                                                    *)
(*   - an ICacheData object is a record whose fields are the object's own  *)
(*     properties (a property that was never written is not in DOMAIN),    *)
(*     plus "ref", the identity of the object (what !== compares): the     *)
(*     promise the object was created with and the place that created it   *)
(*     (each place creates at most one object per promise);                *)
(*   - a promise is its index in `promises`; an index is free again once   *)
(*     neither the storage nor a registered closure refers to the promise  *)
(*     (MaxPromises bounds the promises alive at the same time);           *)
(*   - `undefined` read from a property is Undefined; the value stored by  *)
(*     cache.get for a group without data is NoEntry.                      *)
(*                                                                         *)
(* Specifications.                                                         *)
(*   Spec        one cached function with a [cacheGroup, cacheKey]         *)
(*               resolver, every operation, every ttl of Ttls;             *)
(*   SpecFns     several cached functions of two factories, each with its  *)
(*               own storage: clear and clearCache;                        *)
(*   SpecDefault the default options, the function is only called;         *)
(*   SpecKeys    resolveKey on every resolver output, arity 0..MaxArity;   *)
(*   SpecTtl     Spec's operations with a ttl below -1;                    *)
(*   SpecLive    Spec's operations, with the runtime running the callback  *)
(*               of every settled promise (weak fairness);                 *)
(*   SpecGroups  the operations and the reads get, isFresh, isSettled on   *)
(*               two cache groups.                                         *)
(***************************************************************************)
EXTENDS Integers, Sequences, FiniteSets, TLC

\* ------------------------------------------------------------------ bounds
MaxClock == 2
MaxPromises == 2
MaxFns == 3
MaxArity == 3

\* ------------------------------------------------------- program constants
DefaultTtl == -1
PendingExpireAt == -1
ErrorExpireAt == 0
CtxDefaultTtl == -1

\* -------------------------------------------------------------- JS values
Undefined == "undefined"
NoEntry == [none |-> TRUE]
Free == [state |-> "free"]

Undef == [t |-> "undef"]
Str(s) == [t |-> "str", s |-> s]
Num(n) == [t |-> "num", n |-> n]

\* Inputs of the model: the arguments a caller passes (two argument lists
\* that agree on the first component), the values a producer resolves with,
\* the options a cached function is created with, the inputs of set.
ArgsSet == {[g |-> Str("a"), k |-> Str("x")], [g |-> Str("a"), k |-> Num(1)]}
Values == {"v1", "v2"}
Ttls == {DefaultTtl, 0, 1}
Resolvers == {"default", "scalar", "pair"}
SpecResolvers == {"pair"}
SetValues == {"v2", Undefined}
SetTtls == {CtxDefaultTtl, 0, 1}

\* The factories cacheAsyncFactory(cacheFactory) returned, and the cached
\* functions beside the one whose storage is `store`: that one is the first
\* cached function of ThisFactory.
Factories == {"A", "B"}
ThisFactory == "A"
FirstFn == 1
OtherFns == (FirstFn + 1)..MaxFns
NotCreated == [created |-> FALSE]

Digits == <<"0", "1", "2", "3", "4", "5", "6", "7", "8", "9">>

\* `${key}` without the ?? '' of resolveKey
ToKeyStringNoCoalesce(key) ==
    CASE key.t = "undef" -> "undefined"
      [] key.t = "str" -> key.s
      [] key.t = "num" -> Digits[key.n + 1]

\* `${key ?? ''}` of resolveKey: undefined becomes '', a string stays, a
\* number is written in decimal.
ToKeyString(key) ==
    CASE key.t = "undef" -> ""
      [] key.t = "str" -> key.s
      [] key.t = "num" -> Digits[key.n + 1]

\* The user-supplied resolver. "default" is defaultOptions.resolver; the two
\* others are the README's shapes: a single cacheGroup, or [cacheGroup, cacheKey].
resolver(kind, args) ==
    CASE kind = "default" -> <<"scalar", Str("")>>
      [] kind = "scalar" -> <<"scalar", args.g>>
      [] kind = "pair" -> <<"array", <<args.g, args.k>>>>

\* resolveKey on the value `res` the resolver returned: a scalar or an array
resolveKeyOf(res) ==
    LET keys == IF res[1] = "array" THEN res[2] ELSE <<res[2], res[2]>>
    IN [i \in DOMAIN keys |-> ToKeyString(keys[i])]

resolveKey(kind, args) == resolveKeyOf(resolver(kind, args))

\* const [cacheGroup, cacheKey] = keys: an element the array does not have
\* reads as undefined, elements after the second are not read.
Destructure(keys) ==
    <<IF Len(keys) >= 1 THEN keys[1] ELSE Undefined,
      IF Len(keys) >= 2 THEN keys[2] ELSE Undefined>>

\* What a resolver can return at run time: a primitive key, or an array of
\* primitive keys of any length up to MaxArity (the type asks for two).
Components == {Undef, Str(""), Str("a"), Str("1"), Num(0), Num(1)}
ArraysOf(n) == [1..n -> Components]
ResolverOutputs ==
    {<<"scalar", c>> : c \in Components}
    \cup {<<"array", a>> : a \in UNION {ArraysOf(n) : n \in 0..MaxArity}}

GroupNames == {resolveKey(r, a)[1] : r \in Resolvers, a \in ArgsSet}
KeyNames == {resolveKey(r, a)[2] : r \in Resolvers, a \in ArgsSet}

VARIABLES
    options,     \* { mustRevalidate, resolver, ttl } of the cached function
    store,       \* the ICacheStorage: cacheGroup -> ICacheData or NoEntry
    promises,    \* the promises alive: [state, value], or Free
    thens,       \* the registered promise.then(...) closures of reload
    now,         \* Date.now()
    last,        \* history: the most recent operation, its pre-state and result
    superseded,  \* history: promises whose group got a later reload/set/delete/clear
    settledAt,   \* history: promise -> clock value when its resolve() wrote, or 0
    others       \* the other cached functions: [factory, cache], or NotCreated

vars == <<options, store, promises, thens, now, last, superseded, settledAt,
          others>>

\* ----------------------------------------------------------------- storage
StorageGet(cacheGroup) == store[cacheGroup]
\* cache.set(cacheGroup, data) on a storage that keeps a single slot
StorageSetAll(cacheGroup, data) == [g \in GroupNames |-> data]
StorageSet(cacheGroup, data) == [store EXCEPT ![cacheGroup] = data]
StorageClear == [g \in GroupNames |-> NoEntry]

\* obj.f, and obj?.f when obj is undefined
Field(obj, f) == IF f \in DOMAIN obj THEN obj[f] ELSE Undefined
\* { ...obj } : the own properties of obj, none for undefined
Spread(obj) == IF obj = NoEntry THEN [f \in {} |-> Undefined] ELSE obj

\* --------------------------------------------------------- pure operations
\* isSettled without the test of settled
isSettledOfKeyOnly(cachedData, cacheKey) ==
    Field(cachedData, "key") = cacheKey

isSettledOf(cachedData, cacheKey) ==
    /\ Field(cachedData, "key") = cacheKey
    /\ cachedData.settled

\* isFresh without the comparison of the keys
isFreshOfNoKey(cachedData, cacheKey, t) ==
    /\ cachedData # NoEntry
    /\ cachedData.settled
    /\ (cachedData.expireAt < 0 \/ cachedData.expireAt > t)

\* isFresh with the boundary included: expireAt >= Date.now()
isFreshOfInclusive(cachedData, cacheKey, t) ==
    /\ Field(cachedData, "key") = cacheKey
    /\ cachedData.settled
    /\ (cachedData.expireAt < 0 \/ cachedData.expireAt >= t)

\* isFresh without the comparison of expireAt
isFreshOfNoExpiry(cachedData, cacheKey, t) ==
    /\ Field(cachedData, "key") = cacheKey
    /\ cachedData.settled

\* isFresh that takes only expireAt = -1 as "never expires"
isFreshOfMinusOne(cachedData, cacheKey, t) ==
    /\ Field(cachedData, "key") = cacheKey
    /\ cachedData.settled
    /\ (cachedData.expireAt = DefaultTtl \/ cachedData.expireAt > t)

isFreshOf(cachedData, cacheKey, t) ==
    /\ Field(cachedData, "key") = cacheKey
    /\ cachedData.settled
    /\ (cachedData.expireAt < 0 \/ cachedData.expireAt > t)

\* get without the test of mustRevalidate
getOfAlways(cachedData, cacheKey, t, mustRevalidate) ==
    IF cachedData # NoEntry THEN Field(cachedData, "value") ELSE Undefined

getOf(cachedData, cacheKey, t, mustRevalidate) ==
    IF cachedData # NoEntry /\ (~mustRevalidate \/ isFreshOf(cachedData, cacheKey, t))
    THEN Field(cachedData, "value")
    ELSE Undefined

isSettled(keys) == isSettledOf(StorageGet(keys[1]), keys[2])
isFresh(keys) == isFreshOf(StorageGet(keys[1]), keys[2], now)
get(keys) == getOf(StorageGet(keys[1]), keys[2], now, options.mustRevalidate)

\* The objects the code builds. f @@ g keeps f where both are defined, so
\* the JavaScript literal { a, ...o, b } is [b] @@ Spread(o) @@ [a].
\* reload with the old entry spread last: { key, promise, ..., ...oldCache }
ReloadDataSpreadLast(oldCache, cacheKey, promise) ==
    [ref |-> <<promise, "reload">>]
    @@ Spread(oldCache)
    @@ [key |-> cacheKey, promise |-> promise,
        expireAt |-> PendingExpireAt, settled |-> FALSE]

\* reload without the old entry: { key, promise, expireAt, settled }
ReloadDataNoSpread(oldCache, cacheKey, promise) ==
    [ref |-> <<promise, "reload">>]
    @@ [key |-> cacheKey, promise |-> promise,
        expireAt |-> PendingExpireAt, settled |-> FALSE]

ReloadData(oldCache, cacheKey, promise) ==
    [ref |-> <<promise, "reload">>]
    @@ [key |-> cacheKey, promise |-> promise,
        expireAt |-> PendingExpireAt, settled |-> FALSE]
    @@ Spread(oldCache)

\* resolve without the error branch
ResolveExpireAtNoError(error, ttl, t) == IF ttl < 0 THEN ttl ELSE t + ttl

\* resolve without the ttl < 0 branch
ResolveExpireAtAlwaysAdd(error, ttl, t) == IF error THEN ErrorExpireAt ELSE t + ttl

ResolveExpireAt(error, ttl, t) ==
    IF error THEN ErrorExpireAt ELSE IF ttl < 0 THEN ttl ELSE t + ttl

\* resolve with the entry spread after value: { value, ...cachedData, ... }
ResolveDataKeepValue(cachedData, error, value, ttl, t) ==
    [ref |-> <<cachedData.promise, "resolve">>]
    @@ [expireAt |-> ResolveExpireAt(error, ttl, t), settled |-> TRUE]
    @@ cachedData
    @@ [value |-> value]

\* resolve with the entry spread last: { value, expireAt, settled, ...cachedData }
ResolveDataSpreadLast(cachedData, error, value, ttl, t) ==
    [ref |-> <<cachedData.promise, "resolve">>]
    @@ cachedData
    @@ [value |-> value, expireAt |-> ResolveExpireAt(error, ttl, t),
        settled |-> TRUE]

ResolveData(cachedData, error, value, ttl, t) ==
    [ref |-> <<cachedData.promise, "resolve">>]
    @@ [value |-> value, expireAt |-> ResolveExpireAt(error, ttl, t),
        settled |-> TRUE]
    @@ cachedData

SetExpireAt(valueTtl, t) == IF valueTtl < 0 THEN valueTtl ELSE t + valueTtl

SetData(oldCache, cacheKey, promise, value, valueTtl, t) ==
    [ref |-> <<promise, "set">>]
    @@ [promise |-> promise, value |-> value,
        expireAt |-> SetExpireAt(valueTtl, t), settled |-> TRUE]
    @@ Spread(oldCache)
    @@ [key |-> cacheKey]

\* resolve comparing the entries' contents instead of their identity
InvalidatedByKey(current, cachedData) ==
    current = NoEntry \/ current.key # cachedData.key \/ current.settled

\* resolve that only checks that the group still has an entry
InvalidatedOnlyAbsent(current, cachedData) == current = NoEntry

\* cache.get(cacheGroup) !== cachedData of resolve
Invalidated(current, cachedData) ==
    current = NoEntry \/ current.ref # cachedData.ref

\* ---------------------------------------------------------------- promises
\* The promises the storage `st` or the closures `th` refer to.
Live(st, th) ==
    {st[g].promise : g \in {h \in GroupNames : st[h] # NoEntry}}
    \cup {t.promise : t \in th}

Collect(ps, live) == [p \in DOMAIN ps |-> IF p \in live THEN ps[p] ELSE Free]

FreeIds == {p \in DOMAIN promises : promises[p] = Free}
\* a promise that is none of the promises alive
NewPromise == CHOOSE p \in FreeIds : \A q \in FreeIds : p <= q

\* The state of the promise of an entry.
PromiseState(cachedData) ==
    IF cachedData = NoEntry THEN "none" ELSE promises[cachedData.promise].state

\* The closures of a group whose entry a later operation replaces.
Lost(cacheGroup) == {t.promise : t \in {u \in thens : u.cacheGroup = cacheGroup}}

\* ------------------------------------------------------------------- Init
Init ==
    /\ options \in [mustRevalidate : BOOLEAN, resolver : SpecResolvers, ttl : Ttls]
    /\ store = StorageClear
    /\ promises = [p \in 1..MaxPromises |-> Free]
    /\ thens = {}
    /\ now = 1
    /\ last = [op |-> "init"]
    /\ superseded = {}
    /\ settledAt = [p \in 1..MaxPromises |-> 0]
    /\ others = [i \in OtherFns |-> NotCreated]

\* What is left of the history of promises once the storage is `st` and the
\* closures are `th`.
Keep(ps, st, th, sup, at) ==
    LET live == Live(st, th)
    IN /\ promises' = Collect(ps, live)
       /\ superseded' = sup \cap live
       /\ settledAt' = [p \in DOMAIN at |-> IF p \in live THEN at[p] ELSE 0]

\* reload([cacheGroup, cacheKey], args), as called by `op`
DoReload(op, keys, args) ==
    LET cacheGroup == keys[1]
        cacheKey == keys[2]
        oldCache == StorageGet(cacheGroup)
        promise == NewPromise
        cachedData == ReloadData(oldCache, cacheKey, promise)
        st == StorageSet(cacheGroup, cachedData)
        th == thens \cup {[promise |-> promise, cacheGroup |-> cacheGroup,
                           cachedData |-> cachedData]}
    IN /\ FreeIds # {}
       /\ store' = st
       /\ thens' = th
       /\ Keep([promises EXCEPT ![promise] = [state |-> "pending", value |-> Undefined]],
               st, th, superseded \cup Lost(cacheGroup), settledAt)
       /\ last' = [op |-> op, args |-> args, keys |-> keys, pre |-> oldCache,
                   preState |-> PromiseState(oldCache),
                   ret |-> promise, invoked |-> 1, fnArgs |-> args]
       /\ UNCHANGED <<options, now, others>>

Reload(args) == DoReload("reload", resolveKey(options.resolver, args), args)

Call(args) ==
    LET key == resolveKey(options.resolver, args)
        cachedData == StorageGet(key[1])
    IN IF cachedData # NoEntry /\ isFresh(key)
       THEN /\ last' = [op |-> "call", args |-> args, keys |-> key,
                        pre |-> cachedData, preState |-> PromiseState(cachedData),
                        ret |-> cachedData.promise, invoked |-> 0]
            /\ UNCHANGED <<options, store, promises, thens, now, superseded,
                           settledAt, others>>
       ELSE DoReload("call", key, args)

\* getContext(...args).set(value, ttl = -1)
Set(args, value, valueTtl) ==
    LET keys == resolveKey(options.resolver, args)
        cacheGroup == keys[1]
        oldCache == StorageGet(cacheGroup)
        promise == NewPromise
        st == StorageSet(cacheGroup,
                  SetData(oldCache, keys[2], promise, value, valueTtl, now))
    IN /\ FreeIds # {}
       /\ store' = st
       /\ Keep([promises EXCEPT ![promise] =
                   IF value = Undefined
                   THEN [state |-> "rejected", value |-> Undefined]
                   ELSE [state |-> "fulfilled", value |-> value]],
               st, thens, superseded \cup Lost(cacheGroup), settledAt)
       /\ last' = [op |-> "set", keys |-> keys, pre |-> oldCache,
                   value |-> value, ttl |-> valueTtl, invoked |-> 0]
       /\ UNCHANGED <<options, thens, now, others>>

\* delete_ that removes the entry only when it was created for cacheKey
DeleteMatching(args) ==
    LET keys == resolveKey(options.resolver, args)
        cacheGroup == keys[1]
        oldCache == StorageGet(cacheGroup)
        hit == oldCache # NoEntry /\ oldCache.key = keys[2]
        st == IF hit THEN StorageSet(cacheGroup, NoEntry) ELSE store
    IN /\ store' = st
       /\ Keep(promises, st, thens,
               IF hit THEN superseded \cup Lost(cacheGroup) ELSE superseded,
               settledAt)
       /\ last' = [op |-> "delete", keys |-> keys,
                   pre |-> oldCache, invoked |-> 0]
       /\ UNCHANGED <<options, thens, now, others>>

Delete(args) ==
    LET keys == resolveKey(options.resolver, args)
        cacheGroup == keys[1]
        st == StorageSet(cacheGroup, NoEntry)
    IN /\ store' = st
       /\ Keep(promises, st, thens, superseded \cup Lost(cacheGroup), settledAt)
       /\ last' = [op |-> "delete", keys |-> keys,
                   pre |-> StorageGet(cacheGroup), invoked |-> 0]
       /\ UNCHANGED <<options, thens, now, others>>

Clear ==
    /\ store' = StorageClear
    /\ Keep(promises, StorageClear, thens,
            superseded \cup {t.promise : t \in thens}, settledAt)
    /\ last' = [op |-> "clear", invoked |-> 0]
    /\ UNCHANGED <<options, thens, now, others>>

\* The producer's promise settles: fulfilled with a value, or rejected.
ProducerSettles(p, ok, value) ==
    /\ promises[p].state = "pending"
    /\ promises' = [promises EXCEPT ![p] =
           IF ok THEN [state |-> "fulfilled", value |-> value]
                 ELSE [state |-> "rejected", value |-> Undefined]]
    /\ last' = [op |-> "none"]
    /\ UNCHANGED <<options, store, thens, now, superseded, settledAt, others>>

\* The closure registered by promise.then(...) runs: resolve(error, value).
Then(t) ==
    LET p == t.promise
        error == promises[p].state = "rejected"
        value == promises[p].value
        current == StorageGet(t.cacheGroup)
        written == ~Invalidated(current, t.cachedData)
        st == IF written
              THEN StorageSet(t.cacheGroup,
                       ResolveData(t.cachedData, error, value, options.ttl, now))
              ELSE store
        th == thens \ {t}
    IN /\ promises[p].state \in {"fulfilled", "rejected"}
       /\ thens' = th
       /\ store' = st
       /\ Keep(promises, st, th, superseded \ {p},
               IF written THEN [settledAt EXCEPT ![p] = now] ELSE settledAt)
       /\ last' = [op |-> "then", promise |-> p, keys |-> <<t.cacheGroup, t.cachedData.key>>,
                   pre |-> current, error |-> error, value |-> value,
                   lost |-> p \in superseded, invoked |-> 0]
       /\ UNCHANGED <<options, now, others>>

Tick ==
    /\ now < MaxClock
    /\ now' = now + 1
    /\ last' = [op |-> "none"]
    /\ UNCHANGED <<options, store, promises, thens, superseded, settledAt,
                   others>>

Next ==
    \/ \E args \in ArgsSet : Call(args)
    \/ \E args \in ArgsSet : Reload(args)
    \/ \E args \in ArgsSet, value \in SetValues, valueTtl \in SetTtls :
           Set(args, value, valueTtl)
    \/ \E args \in ArgsSet : Delete(args)
    \/ Clear
    \/ \E p \in DOMAIN promises, ok \in BOOLEAN, value \in Values :
           ProducerSettles(p, ok, value)
    \/ \E t \in thens : Then(t)
    \/ Tick

Spec == Init /\ [][Next]_vars

\* ------------------------------------------- several cached functions
\* The storage of a cached function beside the first: cacheFactory() gives
\* each cached function a storage of its own (README, createCache).
Created(i) == others[i] # NotCreated
CacheOf(i) == others[i].cache
CacheSet(i, cacheGroup, data) ==
    [others EXCEPT ![i].cache = [@ EXCEPT ![cacheGroup] = data]]

\* cacheAsync(fn, options) of factory f: a new storage from cacheFactory(),
\* and the new cached function is pushed to the factory's cachedFns.
cacheAsync(f) ==
    /\ \E i \in OtherFns : ~Created(i)
    /\ LET i == CHOOSE j \in OtherFns :
                    ~Created(j) /\ \A h \in OtherFns : ~Created(h) => j <= h
       IN /\ others' = [others EXCEPT
                            ![i] = [factory |-> f, cache |-> StorageClear]]
          /\ last' = [op |-> "cacheAsync", fn |-> i, invoked |-> 0]
    /\ UNCHANGED <<options, store, promises, thens, now, superseded, settledAt>>

\* getContext(...args).set(value, ttl) of the cached function i; the promise
\* of the entry is Promise.resolve(value) or Promise.reject().
FnSet(i, args, value, valueTtl) ==
    LET keys == resolveKey(options.resolver, args)
        oldCache == CacheOf(i)[keys[1]]
        promise == IF value = Undefined
                   THEN [fn |-> i, state |-> "rejected", value |-> Undefined]
                   ELSE [fn |-> i, state |-> "fulfilled", value |-> value]
    IN /\ Created(i)
       /\ others' = CacheSet(i, keys[1],
                         SetData(oldCache, keys[2], promise, value, valueTtl, now))
       /\ last' = [op |-> "set", fn |-> i, keys |-> keys,
                   value |-> value, ttl |-> valueTtl, invoked |-> 0]
       /\ UNCHANGED <<options, store, promises, thens, now, superseded,
                      settledAt>>

\* delete_ of the cached function i
FnDelete(i, args) ==
    LET keys == resolveKey(options.resolver, args)
    IN /\ Created(i)
       /\ others' = CacheSet(i, keys[1], NoEntry)
       /\ last' = [op |-> "delete", fn |-> i, keys |-> keys, invoked |-> 0]
       /\ UNCHANGED <<options, store, promises, thens, now, superseded,
                      settledAt>>

\* clear of a cached function whose storage is shared by all of them
FnClearShared(i) ==
    /\ Created(i)
    /\ others' = [j \in OtherFns |->
                      IF Created(j)
                      THEN [others[j] EXCEPT !.cache = StorageClear]
                      ELSE others[j]]
    /\ store' = StorageClear
    /\ Keep(promises, StorageClear, thens,
            superseded \cup {t.promise : t \in thens}, settledAt)
    /\ last' = [op |-> "clear", fn |-> i, invoked |-> 0,
                had |-> CacheOf(i) # StorageClear]
    /\ UNCHANGED <<options, thens, now>>

\* clear of the cached function i: cache.clear() on its own storage
FnClear(i) ==
    /\ Created(i)
    /\ others' = [others EXCEPT ![i].cache = StorageClear]
    /\ last' = [op |-> "clear", fn |-> i, invoked |-> 0,
                had |-> CacheOf(i) # StorageClear]
    /\ UNCHANGED <<options, store, promises, thens, now, superseded, settledAt>>

\* clearCache of factory f: cachedFns.forEach((fn) => fn.clear())
clearCache(f) ==
    LET st == IF f = ThisFactory THEN StorageClear ELSE store
        sup == IF f = ThisFactory
               THEN superseded \cup {t.promise : t \in thens}
               ELSE superseded
    IN /\ others' = [j \in OtherFns |->
                         IF Created(j) /\ others[j].factory = f
                         THEN [others[j] EXCEPT !.cache = StorageClear]
                         ELSE others[j]]
       /\ store' = st
       /\ Keep(promises, st, thens, sup, settledAt)
       /\ last' = [op |-> "clearCache", factory |-> f, invoked |-> 0]
       /\ UNCHANGED <<options, thens, now>>

\* Cached functions created with the default mustRevalidate and ttl and a
\* [cacheGroup, cacheKey] resolver.
InitFns ==
    /\ Init
    /\ options = [mustRevalidate |-> FALSE, resolver |-> "pair",
                  ttl |-> DefaultTtl]

NextFns ==
    \/ \E f \in Factories : cacheAsync(f)
    \/ \E i \in OtherFns, args \in ArgsSet : FnSet(i, args, "v1", CtxDefaultTtl)
    \/ \E i \in OtherFns, args \in ArgsSet : FnDelete(i, args)
    \/ \E i \in OtherFns : FnClear(i)
    \/ \E f \in Factories : clearCache(f)
    \/ \E args \in ArgsSet : Reload(args)
    \/ \E args \in ArgsSet : Set(args, "v2", CtxDefaultTtl)
    \/ \E args \in ArgsSet : Delete(args)
    \/ Clear
    \/ \E p \in DOMAIN promises : ProducerSettles(p, TRUE, "v1")
    \/ \E t \in thens : Then(t)

SpecFns == InitFns /\ [][NextFns]_vars

\* ------------------------------------------------ the default options
\* cacheAsync(fn): no resolver and no ttl given, or mustRevalidate alone.
InitDefault ==
    /\ options \in [mustRevalidate : BOOLEAN, resolver : {"default"},
                     ttl : {DefaultTtl}]
    /\ store = StorageClear
    /\ promises = [p \in 1..MaxPromises |-> Free]
    /\ thens = {}
    /\ now = 1
    /\ last = [op |-> "init"]
    /\ superseded = {}
    /\ settledAt = [p \in 1..MaxPromises |-> 0]
    /\ others = [i \in OtherFns |-> NotCreated]

\* The cached function is only called, and the producer does not fail.
NextCalls ==
    \/ \E args \in ArgsSet : Call(args)
    \/ \E p \in DOMAIN promises, value \in Values : ProducerSettles(p, TRUE, value)
    \/ \E t \in thens : Then(t)
    \/ Tick

SpecDefault == InitDefault /\ [][NextCalls]_vars

\* ------------------------------------------------------------ scheduling
\* A callback registered with promise.then runs once the promise has
\* settled: the job queue of the runtime runs every job it holds.
ThenOf(p) == \E t \in thens : t.promise = p /\ Then(t)

SpecLive ==
    /\ InitFns
    /\ [][Next]_vars
    /\ \A p \in 1..MaxPromises : WF_vars(ThenOf(p))

\* ------------------------------------------------- other negative ttls
\* A ttl below -1, as the option and as the ttl given to set, beside a
\* positive one.
NegativeTtls == {-2, 1}

InitTtl ==
    /\ options \in [mustRevalidate : {FALSE}, resolver : SpecResolvers,
                     ttl : NegativeTtls]
    /\ store = StorageClear
    /\ promises = [p \in 1..MaxPromises |-> Free]
    /\ thens = {}
    /\ now = 1
    /\ last = [op |-> "init"]
    /\ superseded = {}
    /\ settledAt = [p \in 1..MaxPromises |-> 0]
    /\ others = [i \in OtherFns |-> NotCreated]

NextTtl ==
    \/ \E args \in ArgsSet : Call(args)
    \/ \E args \in ArgsSet : Reload(args)
    \/ \E args \in ArgsSet, value \in SetValues, valueTtl \in NegativeTtls :
           Set(args, value, valueTtl)
    \/ \E args \in ArgsSet : Delete(args)
    \/ Clear
    \/ \E p \in DOMAIN promises, ok \in BOOLEAN, value \in Values :
           ProducerSettles(p, ok, value)
    \/ \E t \in thens : Then(t)
    \/ Tick

SpecTtl == InitTtl /\ [][NextTtl]_vars

\* ------------------------------------------------------------ two groups
\* Argument lists of two cache groups: 'a', and '' for an undefined first
\* component.
GroupArgs == {[g |-> Str("a"), k |-> Str("x")], [g |-> Undef, k |-> Str("x")]}

\* cachedFn.get(...args): reads the storage, returns the value or undefined
Get(args) ==
    LET keys == resolveKey(options.resolver, args)
    IN /\ last' = [op |-> "get", args |-> args, keys |-> keys,
                   ret |-> get(keys), invoked |-> 0]
       /\ UNCHANGED <<options, store, promises, thens, now, superseded,
                      settledAt, others>>

\* cachedFn.isFresh(...args)
IsFresh(args) ==
    LET keys == resolveKey(options.resolver, args)
    IN /\ last' = [op |-> "isFresh", args |-> args, keys |-> keys,
                   ret |-> isFresh(keys), invoked |-> 0]
       /\ UNCHANGED <<options, store, promises, thens, now, superseded,
                      settledAt, others>>

\* cachedFn.isSettled(...args)
IsSettled(args) ==
    LET keys == resolveKey(options.resolver, args)
    IN /\ last' = [op |-> "isSettled", args |-> args, keys |-> keys,
                   ret |-> isSettled(keys), invoked |-> 0]
       /\ UNCHANGED <<options, store, promises, thens, now, superseded,
                      settledAt, others>>

NextGroups ==
    \/ \E args \in GroupArgs : Call(args)
    \/ \E args \in GroupArgs : Reload(args)
    \/ \E args \in GroupArgs : Set(args, "v2", CtxDefaultTtl)
    \/ \E args \in GroupArgs : Delete(args)
    \/ Clear
    \/ \E args \in GroupArgs : Get(args)
    \/ \E args \in GroupArgs : IsFresh(args)
    \/ \E args \in GroupArgs : IsSettled(args)
    \/ \E p \in DOMAIN promises, ok \in BOOLEAN : ProducerSettles(p, ok, "v1")
    \/ \E t \in thens : Then(t)
    \/ Tick

SpecGroups == InitFns /\ [][NextGroups]_vars

\* ------------------------------------------------------- key resolution
\* withArgs: const keys = resolveKey(...args), for a resolver returning res;
\* then keyFn destructures keys into [cacheGroup, cacheKey].
ResolveKey(res) ==
    /\ last' = [op |-> "resolveKey", res |-> res, keys |-> resolveKeyOf(res),
                tuple |-> Destructure(resolveKeyOf(res)), invoked |-> 0]
    /\ UNCHANGED <<options, store, promises, thens, now, superseded, settledAt,
                   others>>

NextKeys == \E res \in ResolverOutputs : ResolveKey(res)

SpecKeys == InitFns /\ [][NextKeys]_vars

\* ================================================================== claims
\* The entry of a group was written by resolve() of a producer promise that
\* was fulfilled / rejected.
Succeeded(cachedData) ==
    /\ cachedData # NoEntry
    /\ cachedData.ref[2] = "resolve"
    /\ promises[cachedData.promise].state = "fulfilled"

Failed(cachedData) ==
    /\ cachedData # NoEntry
    /\ cachedData.ref[2] = "resolve"
    /\ promises[cachedData.promise].state = "rejected"

\* The operation recorded in `last` is a call or a reload.
IsCall == last.op = "call"
IsReload == last.op = "reload"
\* The entry the last call found was pending / fresh / settled and no longer
\* fresh, for the key of the call.
PrePending == last.pre # NoEntry /\ ~last.pre.settled /\ last.pre.key = last.keys[2]
PreFresh == isFreshOf(last.pre, last.keys[2], now)
PreStale ==
    /\ last.pre # NoEntry
    /\ last.pre.settled
    /\ last.pre.key = last.keys[2]
    /\ last.pre.expireAt >= 0
    /\ last.pre.expireAt <= now

\* C1 (as claimed): a call issued while the group's entry is Pending or Fresh
\* for the same key invokes no producer and returns the entry's promise.
C1_Dedup ==
    (IsCall /\ (PrePending \/ PreFresh))
        => (last.invoked = 0 /\ last.ret = last.pre.promise)

\* C2: the resolve() closure of an entry that a later reload, call, set,
\* delete or clear replaced or removed leaves the store as it was, whether
\* the producer's promise was fulfilled or rejected.
C2_RaceSafety ==
    (last.op = "then" /\ last.lost) => store[last.keys[1]] = last.pre

C2_Witness ==
    /\ last.op = "then"
    /\ last.lost
    /\ ~last.error
    /\ store[last.keys[1]] # NoEntry
    /\ store[last.keys[1]].key = last.keys[2]
    /\ ~store[last.keys[1]].settled

\* C3 (as claimed): for an entry created for key k1 and any k2 # k1, get
\* returns absent, isFresh and isSettled are false, and call(k2) reloads.
C3_KeyChange_Original ==
    /\ \A g \in GroupNames, k2 \in KeyNames :
           (store[g] # NoEntry /\ store[g].key # k2)
               => /\ get(<<g, k2>>) = Undefined
                  /\ ~isFresh(<<g, k2>>)
                  /\ ~isSettled(<<g, k2>>)
    /\ (IsCall /\ last.pre # NoEntry /\ last.pre.key # last.keys[2])
           => last.invoked = 1

\* C3 (amended): for an entry created for key k1 and any k2 # k1, isFresh
\* and isSettled are false, call(k2) invokes the producer and installs a
\* pending entry for k2, and get returns absent when mustRevalidate is set;
\* when it is not set, get returns the value stored for k1.
C3_KeyChange ==
    /\ \A g \in GroupNames, k2 \in KeyNames :
           (store[g] # NoEntry /\ store[g].key # k2)
               => /\ ~isFresh(<<g, k2>>)
                  /\ ~isSettled(<<g, k2>>)
                  /\ get(<<g, k2>>) = IF options.mustRevalidate
                                      THEN Undefined
                                      ELSE Field(store[g], "value")
    /\ (IsCall /\ last.pre # NoEntry /\ last.pre.key # last.keys[2])
           => /\ last.invoked = 1
              /\ store[last.keys[1]].key = last.keys[2]
              /\ ~store[last.keys[1]].settled

C3_Witness ==
    /\ IsCall
    /\ last.pre # NoEntry
    /\ last.pre.key # last.keys[2]
    /\ isFreshOf(last.pre, last.pre.key, now)
    /\ Field(last.pre, "value") # Undefined
    /\ last.invoked = 1

\* C4: while the store holds the entry written by resolve() for a rejected
\* producer promise, isFresh is false and isSettled is true for its key, at
\* every clock value; and a call for that key invokes the producer and
\* returns the new promise, not the rejected one.
C4_Failure ==
    /\ \A g \in GroupNames :
           Failed(store[g])
               => /\ ~isFresh(<<g, store[g].key>>)
                  /\ isSettled(<<g, store[g].key>>)
    /\ (/\ IsCall
        /\ last.pre # NoEntry
        /\ last.pre.ref[2] = "resolve"
        /\ last.preState = "rejected"
        /\ last.pre.key = last.keys[2])
           => /\ last.invoked = 1
              /\ last.ret # last.pre.promise
              /\ promises[last.ret].state = "pending"

C4_Witness ==
    /\ IsCall
    /\ last.pre # NoEntry
    /\ last.pre.ref[2] = "resolve"
    /\ last.preState = "rejected"
    /\ last.pre.key = last.keys[2]
    /\ options.ttl = DefaultTtl
    /\ last.invoked = 1

\* C5: with ttl = T >= 0, the entry written by resolve() at clock value s for
\* a fulfilled producer promise is fresh exactly while now < s + T.
C5_FreshWindow ==
    \A g \in GroupNames :
        (Succeeded(store[g]) /\ options.ttl >= 0)
            => (isFresh(<<g, store[g].key>>)
                    <=> now < settledAt[store[g].promise] + options.ttl)

C5_Witness ==
    \E g \in GroupNames :
        /\ Succeeded(store[g])
        /\ options.ttl = 1
        /\ now = settledAt[store[g].promise] + options.ttl
        /\ ~isFresh(<<g, store[g].key>>)

\* C6: with ttl = -1, the entry written by resolve() for a fulfilled producer
\* promise is fresh at every clock value, and a call for its key invokes no
\* producer and returns the entry's promise.
C6_NeverExpire ==
    /\ \A g \in GroupNames :
           (Succeeded(store[g]) /\ options.ttl = DefaultTtl)
               => isFresh(<<g, store[g].key>>)
    /\ (/\ IsCall
        /\ options.ttl = DefaultTtl
        /\ last.pre # NoEntry
        /\ last.pre.ref[2] = "resolve"
        /\ last.preState = "fulfilled"
        /\ last.pre.key = last.keys[2])
           => (last.invoked = 0 /\ last.ret = last.pre.promise)

C6_Witness ==
    /\ IsCall
    /\ options.ttl = DefaultTtl
    /\ Succeeded(last.pre)
    /\ last.pre.key = last.keys[2]
    /\ now > settledAt[last.pre.promise]
    /\ last.invoked = 0

\* C7 (as claimed): get returns the stored value exactly when an entry with
\* matching key exists and (mustRevalidate is false or the entry is fresh).
C7_Get_Original ==
    \A g \in GroupNames, k \in KeyNames :
        get(<<g, k>>) =
            IF /\ store[g] # NoEntry
               /\ store[g].key = k
               /\ (~options.mustRevalidate \/ isFresh(<<g, k>>))
            THEN Field(store[g], "value")
            ELSE Undefined

\* C7 (amended): get returns the stored value exactly when the group has an
\* entry, whatever its key, and (mustRevalidate is false or the entry is
\* fresh for the key asked for). So for the entry of a fulfilled producer
\* promise whose ttl has elapsed, get returns the value when mustRevalidate
\* is false and absent when it is true; with mustRevalidate true, get returns
\* absent when there is no entry or the entry is pending.
C7_Get ==
    \A g \in GroupNames, k \in KeyNames :
        LET e == store[g]
        IN /\ e = NoEntry => get(<<g, k>>) = Undefined
           /\ (e # NoEntry /\ ~options.mustRevalidate)
                  => get(<<g, k>>) = Field(e, "value")
           /\ (e # NoEntry /\ options.mustRevalidate)
                  => get(<<g, k>>) =
                         IF isFresh(<<g, k>>) THEN e.value ELSE Undefined
           /\ (e # NoEntry /\ options.mustRevalidate /\ ~e.settled)
                  => get(<<g, k>>) = Undefined
           /\ (/\ Succeeded(e)
               /\ e.key = k
               /\ options.ttl >= 0
               /\ now >= settledAt[e.promise] + options.ttl)
                  => get(<<g, k>>) =
                         IF options.mustRevalidate
                         THEN Undefined
                         ELSE promises[e.promise].value

C7_Witness ==
    \E g \in GroupNames :
        /\ Succeeded(store[g])
        /\ options.mustRevalidate
        /\ options.ttl = 1
        /\ now >= settledAt[store[g].promise] + options.ttl
        /\ store[g].value \in Values
        /\ get(<<g, store[g].key>>) = Undefined

\* C8 (as claimed): a call that finds a settled entry that is no longer
\* fresh returns the stale entry's promise.
C8_StaleServed_Original ==
    (IsCall /\ PreStale) => last.ret = last.pre.promise

\* C8 (amended): a call that finds a settled entry that is no longer fresh
\* invokes the producer and returns the new producer promise, which is the
\* promise of the pending entry it installs, not the stale entry's promise.
C8_StaleReloads ==
    (IsCall /\ PreStale)
        => /\ last.invoked = 1
           /\ last.ret # last.pre.promise
           /\ promises[last.ret].state = "pending"
           /\ store[last.keys[1]].promise = last.ret
           /\ ~store[last.keys[1]].settled

C8_Witness ==
    /\ IsCall
    /\ last.pre # NoEntry
    /\ last.pre.ref[2] = "resolve"
    /\ last.preState = "fulfilled"
    /\ last.pre.settled
    /\ last.pre.key = last.keys[2]
    /\ last.pre.expireAt > 0
    /\ last.pre.expireAt <= now
    /\ last.invoked = 1

\* C9 (as claimed, for ttl < 0 or ttl > 0): set with a non-null value
\* invokes no producer, and whatever entry the group held, afterwards
\* isSettled is true, get returns the value and isFresh is true.
C9_ManualSet ==
    (last.op = "set" /\ last.value # Undefined /\ last.ttl # 0)
        => /\ last.invoked = 0
           /\ isSettled(last.keys)
           /\ get(last.keys) = last.value
           /\ isFresh(last.keys)

\* C10: every reload invokes the producer once, with the arguments of the
\* reload, returns the producer's promise, and leaves the group holding a new
\* pending entry for the key with that promise, whatever entry was there.
C10_Reload ==
    IsReload
        => /\ last.invoked = 1
           /\ last.fnArgs = last.args
           /\ promises[last.ret].state = "pending"
           /\ (last.pre # NoEntry => last.ret # last.pre.promise)
           /\ store[last.keys[1]] # NoEntry
           /\ store[last.keys[1]].key = last.keys[2]
           /\ store[last.keys[1]].promise = last.ret
           /\ ~store[last.keys[1]].settled
           /\ store[last.keys[1]] # last.pre
           /\ ~isSettled(last.keys)

C10_Witness ==
    /\ IsReload
    /\ last.pre # NoEntry
    /\ isFreshOf(last.pre, last.pre.key, now)
    /\ last.pre.key # last.keys[2]
    /\ Field(last.pre, "value") # Undefined

\* The entry of group g is one installed by reload that no resolve() replaced.
Pending(g) == store[g] # NoEntry /\ ~store[g].settled

\* get(keys) in the state a step leads to.
getNext(keys) ==
    getOf(store'[keys[1]], keys[2], now', options'.mustRevalidate)

\* C11: with mustRevalidate = false, a reload (or a call that reloads) of a
\* group that holds an entry leaves get returning the value the entry had;
\* and while the group's entry is pending, get changes only in the step
\* where the resolve() closure of the entry's own promise writes (to the
\* value the promise was fulfilled with, to absent when it was rejected) or
\* where set, delete or clear replaces the entry.
C11_ReloadKeepsValue ==
    [][~options.mustRevalidate =>
        /\ (last'.op \in {"reload", "call"} /\ last'.invoked = 1
                /\ last'.pre # NoEntry)
               => getNext(last'.keys) = Field(last'.pre, "value")
        /\ \A g \in GroupNames, k \in KeyNames :
               (Pending(g) /\ getNext(<<g, k>>) # get(<<g, k>>))
                   => \/ last'.op \in {"set", "delete", "clear"}
                      \/ /\ last'.op = "then"
                         /\ last'.promise = store[g].promise
                         /\ ~last'.lost
                         /\ getNext(<<g, k>>) =
                                IF last'.error THEN Undefined ELSE last'.value
    ]_vars

C11_Witness ==
    /\ IsReload
    /\ ~options.mustRevalidate
    /\ last.pre # NoEntry
    /\ last.pre.settled
    /\ last.pre.key = last.keys[2]
    /\ Field(last.pre, "value") \in Values
    /\ Pending(last.keys[1])
    /\ get(last.keys) = last.pre.value

\* C12: whatever entry the group held (none, pending, fresh, stale, of any
\* key), right after delete the group has no entry, for every key get
\* returns absent and isFresh and isSettled are false, and no producer was
\* invoked; and a call for that group that comes next invokes the producer.
C12_Delete ==
    /\ [](last.op = "delete"
            => /\ store[last.keys[1]] = NoEntry
               /\ last.invoked = 0
               /\ \A k \in KeyNames :
                      /\ get(<<last.keys[1], k>>) = Undefined
                      /\ ~isFresh(<<last.keys[1], k>>)
                      /\ ~isSettled(<<last.keys[1], k>>))
    /\ [][(last.op = "delete" /\ last'.op = "call"
              /\ last'.keys[1] = last.keys[1])
             => (last'.invoked = 1 /\ last'.pre = NoEntry)]_vars

C12_Witness ==
    /\ last.op = "delete"
    /\ last.pre # NoEntry
    /\ last.pre.key # last.keys[2]
    /\ isFreshOf(last.pre, last.pre.key, now)
    /\ Field(last.pre, "value") \in Values
    /\ ~options.mustRevalidate
    /\ store[last.keys[1]] = NoEntry

\* The cached functions there are, the first one included, their storages
\* before and after a step, and the factory that created each.
Fns == {FirstFn} \cup {i \in OtherFns : Created(i)}
StorageOf(i) == IF i = FirstFn THEN store ELSE others[i].cache
StorageNext(i) == IF i = FirstFn THEN store' ELSE others'[i].cache
FactoryOf(i) == IF i = FirstFn THEN ThisFactory ELSE others[i].factory
\* The cached function whose clear() the step to `next` was.
ClearedFn(next) == IF "fn" \in DOMAIN next THEN next.fn ELSE FirstFn

\* C13: clear() of a cached function leaves no entry in any group of that
\* function and leaves the storage of every other cached function, of the
\* same factory or of another, as it was; clearCache() of a factory leaves
\* no entry in any cached function created through that factory (and the
\* cached functions of the other factories as they were). Each cached
\* function has the storage its own cacheFactory() call returned.
C13_Clear ==
    [][/\ last'.op = "clear"
           => \A i \in Fns :
                  StorageNext(i) = IF i = ClearedFn(last')
                                   THEN StorageClear
                                   ELSE StorageOf(i)
       /\ last'.op = "clearCache"
           => \A i \in Fns :
                  StorageNext(i) = IF FactoryOf(i) = last'.factory
                                   THEN StorageClear
                                   ELSE StorageOf(i)
    ]_vars

C13_Witness ==
    /\ last.op = "clear"
    /\ ClearedFn(last) # FirstFn
    /\ last.had
    /\ store # StorageClear
    /\ \E i \in OtherFns :
           /\ Created(i)
           /\ i # last.fn
           /\ others[i].factory = others[last.fn].factory
           /\ others[i].cache # StorageClear

\* C14 (as claimed): with the default options every argument list resolves
\* to the key tuple ('', ''), and when the cached function is only called
\* and the producer does not fail, every call after the first invokes no
\* producer and returns the promise of the single slot.
C14_Singleton ==
    /\ \A args \in ArgsSet : resolveKey(options.resolver, args) = <<"", "">>
    /\ (IsCall /\ last.pre # NoEntry)
           => (last.invoked = 0 /\ last.ret = last.pre.promise)

\* The string form of a resolver output component: '' for undefined, the
\* string itself, the decimal digits of a number.
StringForm(c) ==
    IF c.t = "undef" THEN ""
    ELSE IF c.t = "str" THEN c.s
    ELSE IF c.n = 0 THEN "0" ELSE "1"

ResolvedKey == last.op = "resolveKey"
IsScalar == last.res[1] = "scalar"
IsArray == last.res[1] = "array"
Elements == last.res[2]

\* C15 (as claimed): resolveKey yields a pair: (str(r), str(r)) for a scalar
\* r, and for an array the string forms of its first two elements, whatever
\* the length of the array.
C15_ResolveKey_Original ==
    ResolvedKey
        => /\ Len(last.keys) = Len(<<"cacheGroup", "cacheKey">>)
           /\ IsScalar =>
                  last.keys = <<StringForm(Elements), StringForm(Elements)>>
           /\ IsArray =>
                  \A i \in DOMAIN last.keys :
                      last.keys[i] = IF i \in DOMAIN Elements
                                     THEN StringForm(Elements[i])
                                     ELSE ""

\* C15 (amended): a scalar r yields (str(r), str(r)); an array yields the
\* string forms of all its elements, as many as the array has, so it is a
\* pair exactly for an array of two elements. The operations read the first
\* two elements of the result: for an array of more than two elements the
\* rest is ignored, for an array of fewer than two the missing cacheKey
\* (and cacheGroup, for the empty array) is undefined, not a string.
C15_ResolveKey ==
    ResolvedKey
        => /\ IsScalar =>
                  /\ last.keys = <<StringForm(Elements), StringForm(Elements)>>
                  /\ last.tuple = last.keys
           /\ IsArray =>
                  /\ Len(last.keys) = Len(Elements)
                  /\ \A i \in DOMAIN Elements :
                         last.keys[i] = StringForm(Elements[i])
                  /\ last.tuple[1] = IF Len(Elements) >= 1
                                     THEN StringForm(Elements[1])
                                     ELSE Undefined
                  /\ last.tuple[2] = IF Len(Elements) >= 2
                                     THEN StringForm(Elements[2])
                                     ELSE Undefined

C15_Witness ==
    /\ ResolvedKey
    /\ IsArray
    /\ Len(Elements) = 1
    /\ Elements[1] = Undef
    /\ last.keys = <<"">>
    /\ last.tuple = <<"", Undefined>>

\* C16 (as claimed): isFresh(group, key) is true exactly when the group's
\* entry has the key, is settled, and has expireAt = -1 or expireAt > now.
C16_IsFresh_Original ==
    \A g \in GroupNames, k \in KeyNames :
        isFresh(<<g, k>>)
            <=> /\ store[g] # NoEntry
                /\ store[g].key = k
                /\ store[g].settled
                /\ (store[g].expireAt = DefaultTtl \/ store[g].expireAt > now)

\* C16 (amended): isFresh(group, key) is true exactly when the group's entry
\* has the key, is settled, and has expireAt < 0 or expireAt > now. set with
\* a negative ttl and the settlement of a fulfilled promise under a negative
\* ttl option store that ttl itself as expireAt (-2 stays -2), and the
\* entry is fresh for its key from then on.
C16_IsFresh ==
    /\ \A g \in GroupNames, k \in KeyNames :
           isFresh(<<g, k>>)
               <=> /\ store[g] # NoEntry
                   /\ store[g].key = k
                   /\ store[g].settled
                   /\ (store[g].expireAt < 0 \/ store[g].expireAt > now)
    /\ (last.op = "set" /\ last.ttl < 0)
           => /\ store[last.keys[1]].expireAt = last.ttl
              /\ isFresh(<<last.keys[1], store[last.keys[1]].key>>)
    /\ \A g \in GroupNames :
           (Succeeded(store[g]) /\ options.ttl < 0)
               => /\ store[g].expireAt = options.ttl
                  /\ isFresh(<<g, store[g].key>>)

C16_Witness ==
    \E g \in GroupNames :
        /\ Succeeded(store[g])
        /\ options.ttl < DefaultTtl
        /\ store[g].expireAt = options.ttl
        /\ now > settledAt[store[g].promise]
        /\ isFresh(<<g, store[g].key>>)

\* C17: while the entry of a group is the object reload installed (its
\* resolve() closure has not written), the entry has settled = false and
\* expireAt = -1, and isFresh and isSettled are false for every key, the
\* entry's own included, whatever entry the reload replaced and whether or
\* not the producer's promise has already settled.
C17_PendingNotFresh ==
    \A g \in GroupNames :
        (store[g] # NoEntry /\ store[g].ref[2] = "reload")
            => /\ ~store[g].settled
               /\ store[g].expireAt = PendingExpireAt
               /\ \A k \in KeyNames \cup {store[g].key} :
                      /\ ~isFresh(<<g, k>>)
                      /\ ~isSettled(<<g, k>>)

C17_Witness ==
    /\ IsReload
    /\ last.pre # NoEntry
    /\ last.pre.key = last.keys[2]
    /\ isFreshOf(last.pre, last.keys[2], now)
    /\ store[last.keys[1]].ref[2] = "reload"
    /\ store[last.keys[1]].expireAt = PendingExpireAt
    /\ ~isFresh(last.keys)
    /\ ~isSettled(last.keys)

\* C18: the resolve() closure of an entry that was not replaced, run for a
\* rejected promise, leaves a settled entry with expireAt = 0 and value
\* undefined, also when the entry carried the value of an earlier success;
\* as long as that entry is stored, get returns absent for every key and
\* either setting of mustRevalidate.
C18_FailedNoValue ==
    /\ (last.op = "then" /\ ~last.lost /\ last.error)
           => Failed(store[last.keys[1]])
    /\ \A g \in GroupNames :
           Failed(store[g])
               => /\ store[g].settled
                  /\ store[g].expireAt = ErrorExpireAt
                  /\ Field(store[g], "value") = Undefined
                  /\ \A k \in KeyNames : get(<<g, k>>) = Undefined

C18_Witness ==
    /\ last.op = "then"
    /\ ~last.lost
    /\ last.error
    /\ ~options.mustRevalidate
    /\ Field(last.pre, "value") \in Values
    /\ Failed(store[last.keys[1]])
    /\ get(last.keys) = Undefined

\* The closures of the group whose entry no later reload, call, set, delete
\* or clear replaced: the closure of the reload issued last, if any.
Current(g) == {t \in thens : t.cacheGroup = g /\ t.promise \notin superseded}

\* C19: of the reloads issued for a group, only the one issued last can
\* write. At any time at most one closure of the group is not superseded,
\* and it belongs to the entry that is stored; the closure of an earlier
\* reload, whenever it runs (before or after the last one's), leaves the
\* store as it is, so the store never holds the outcome of a superseded
\* reload; the closure of the reload issued last writes the settled entry
\* with that reload's promise, key and outcome.
C19_LastReloadWins ==
    /\ \A g \in GroupNames :
           /\ \A t, u \in Current(g) : t = u
           /\ \A t \in Current(g) : store[g] = t.cachedData
           /\ (store[g] # NoEntry /\ store[g].ref[2] = "resolve")
                  => store[g].promise \notin superseded
    /\ (last.op = "then" /\ last.lost) => store[last.keys[1]] = last.pre
    /\ (last.op = "then" /\ ~last.lost)
           => /\ store[last.keys[1]].promise = last.promise
              /\ store[last.keys[1]].key = last.keys[2]
              /\ store[last.keys[1]].settled
              /\ store[last.keys[1]].value = last.value
              /\ store[last.keys[1]].expireAt =
                     IF last.error THEN ErrorExpireAt
                     ELSE IF options.ttl < 0 THEN options.ttl
                     ELSE now + options.ttl

\* The closure of the earlier reload runs after the later reload's closure
\* wrote: the later reload's outcome stays.
C19_Witness ==
    /\ last.op = "then"
    /\ last.lost
    /\ ~last.error
    /\ Succeeded(store[last.keys[1]])
    /\ store[last.keys[1]].promise # last.promise
    /\ store[last.keys[1]].key # last.keys[2]
    /\ store[last.keys[1]].value # last.value

\* The key tuples the cached function's resolver yields.
ResolvedKeys == {resolveKey(r, args) : r \in SpecResolvers, args \in ArgsSet}

\* The entry of group g is the pending entry reload installed for key k with
\* promise p, and the producer's promise has resolved or rejected.
PendingSettled(g, k, p) ==
    /\ store[g] # NoEntry
    /\ store[g].ref = <<p, "reload">>
    /\ store[g].key = k
    /\ promises[p].state \in {"fulfilled", "rejected"}

\* The resolve() closure of promise p wrote the entry of group g.
Written(g, k, p) ==
    /\ store[g] # NoEntry
    /\ store[g].ref = <<p, "resolve">>
    /\ isSettled(<<g, k>>)

\* C20: once the producer's promise of a pending entry has resolved or
\* rejected, eventually the entry is settled for its key, isSettled(group,
\* key) is true, unless a reload, set, delete or clear replaces the group's
\* entry first; and right after the closure of an entry that was not
\* replaced has run, isSettled is true for the entry's key.
C20_SettlementLiveness ==
    /\ []((last.op = "then" /\ ~last.lost) => isSettled(last.keys))
    /\ \A keys \in ResolvedKeys, p \in 1..MaxPromises :
           PendingSettled(keys[1], keys[2], p)
               ~> (Written(keys[1], keys[2], p) \/ p \in superseded)

C20_Witness ==
    /\ last.op = "then"
    /\ ~last.lost
    /\ last.error
    /\ last.pre.ref[2] = "reload"
    /\ store[last.keys[1]].ref = <<last.promise, "resolve">>
    /\ isSettled(last.keys)

\* The groups whose stored entry a step changes.
Changed == {g \in GroupNames : store'[g] # store[g]}
\* The operations of one group, the reads, and the steps of the environment
\* (the clock, the producer's promise).
GroupOps == {"call", "reload", "set", "delete", "then"}
Reads == {"get", "isFresh", "isSettled"}

\* C21: a call, reload, set, delete or resolve() closure of group g changes
\* the stored entry of no other group; get, isFresh and isSettled change no
\* stored entry, no promise and no registered closure and invoke no
\* producer; a step that changes the entries of more than one group is a
\* clear.
C21_Isolation ==
    [][/\ last'.op \in GroupOps => Changed \subseteq {last'.keys[1]}
       /\ last'.op \in Reads
              => /\ Changed = {}
                 /\ last'.invoked = 0
                 /\ promises' = promises
                 /\ thens' = thens
       /\ (\E g, h \in Changed : g # h) => last'.op = "clear"
    ]_vars

\* The closure of one group wrote while the other group's entry is pending.
C21_Witness ==
    /\ last.op = "then"
    /\ ~last.lost
    /\ Succeeded(store[last.keys[1]])
    /\ \E g \in GroupNames :
           /\ g # last.keys[1]
           /\ store[g] # NoEntry
           /\ store[g].ref[2] = "reload"
====
